---- MODULE Spec2Model ----
(***************************************************************************)
(* Model of Scripts/ETL.py: the one-shot pipeline that reads a flat retail *)
(* transaction file, splits it into Dim_Customer, Dim_Item and             *)
(* Fact_Purchase, recreates the three tables and loads them into MySQL.    *)
(*                                                                         *)
(* A column label is a sequence of one-character strings, so that the      *)
(* canonicalisation of labels (str.lower, regex replace) is computed.      *)
(* A DataFrame is a record [columns, index, data]: the column labels, the  *)
(* row labels and one sequence of values per row.                          *)
(***************************************************************************)
EXTENDS Integers, Sequences, FiniteSets, TLC

(* ----- bounds ----- *)
MaxRows == 3

(* ----- column labels written as literals in ETL.py ----- *)
c_customer_id ==
    <<"c","u","s","t","o","m","e","r","_","i","d">>
c_age ==
    <<"a","g","e">>
c_gender ==
    <<"g","e","n","d","e","r">>
c_location ==
    <<"l","o","c","a","t","i","o","n">>
c_subscription_status ==
    <<"s","u","b","s","c","r","i","p","t","i","o","n","_","s","t","a","t","u","s">>
c_frequency_of_purchases ==
    <<"f","r","e","q","u","e","n","c","y","_","o","f","_","p","u","r","c","h","a","s","e","s">>
c_item_purchased ==
    <<"i","t","e","m","_","p","u","r","c","h","a","s","e","d">>
c_category ==
    <<"c","a","t","e","g","o","r","y">>
c_size ==
    <<"s","i","z","e">>
c_color ==
    <<"c","o","l","o","r">>
c_season ==
    <<"s","e","a","s","o","n">>
c_purchase_transaction_id ==
    <<"p","u","r","c","h","a","s","e","_","t","r","a","n","s","a","c","t","i","o","n","_","i","d">>
c_purchase_amount_usd ==
    <<"p","u","r","c","h","a","s","e","_","a","m","o","u","n","t","_","u","s","d">>
c_purchase_amount_usd_ ==
    <<"p","u","r","c","h","a","s","e","_","a","m","o","u","n","t","_","u","s","d","_">>
c_review_rating ==
    <<"r","e","v","i","e","w","_","r","a","t","i","n","g">>
c_shipping_type ==
    <<"s","h","i","p","p","i","n","g","_","t","y","p","e">>
c_discount_applied ==
    <<"d","i","s","c","o","u","n","t","_","a","p","p","l","i","e","d">>
c_promo_code_used ==
    <<"p","r","o","m","o","_","c","o","d","e","_","u","s","e","d">>
c_previous_purchases ==
    <<"p","r","e","v","i","o","u","s","_","p","u","r","c","h","a","s","e","s">>
c_preferred_payment_method ==
    <<"p","r","e","f","e","r","r","e","d","_","p","a","y","m","e","n","t","_","m","e","t","h","o","d">>
c_payment_method ==
    <<"p","a","y","m","e","n","t","_","m","e","t","h","o","d">>
c_item_name ==
    <<"i","t","e","m","_","n","a","m","e">>

(* ----- the labels of the shopping_trends.csv header, as published ----- *)
KaggleHeader ==
    << <<"C","u","s","t","o","m","e","r"," ","I","D">>,
       <<"A","g","e">>,
       <<"G","e","n","d","e","r">>,
       <<"I","t","e","m"," ","P","u","r","c","h","a","s","e","d">>,
       <<"C","a","t","e","g","o","r","y">>,
       <<"P","u","r","c","h","a","s","e"," ","A","m","o","u","n","t"," ","(","U","S","D",")">>,
       <<"L","o","c","a","t","i","o","n">>,
       <<"S","i","z","e">>,
       <<"C","o","l","o","r">>,
       <<"S","e","a","s","o","n">>,
       <<"R","e","v","i","e","w"," ","R","a","t","i","n","g">>,
       <<"S","u","b","s","c","r","i","p","t","i","o","n"," ","S","t","a","t","u","s">>,
       <<"P","a","y","m","e","n","t"," ","M","e","t","h","o","d">>,
       <<"S","h","i","p","p","i","n","g"," ","T","y","p","e">>,
       <<"D","i","s","c","o","u","n","t"," ","A","p","p","l","i","e","d">>,
       <<"P","r","o","m","o"," ","C","o","d","e"," ","U","s","e","d">>,
       <<"P","r","e","v","i","o","u","s"," ","P","u","r","c","h","a","s","e","s">>,
       <<"P","r","e","f","e","r","r","e","d"," ","P","a","y","m","e","n","t"," ","M","e","t","h","o","d">>,
       <<"F","r","e","q","u","e","n","c","y"," ","o","f"," ","P","u","r","c","h","a","s","e","s">> >>

(* ----- input files ----- *)
(* The same header already in canonical form (lower case, underscores).    *)
CanonicalHeader ==
    << c_customer_id, c_age, c_gender, c_item_purchased, c_category,
       c_purchase_amount_usd, c_location, c_size, c_color, c_season,
       c_review_rating, c_subscription_status, c_payment_method,
       c_shipping_type, c_discount_applied, c_promo_code_used,
       c_previous_purchases, c_preferred_payment_method,
       c_frequency_of_purchases >>

(* s without its k-th element.                                             *)
Without(s, k) ==
    [j \in 1..(Len(s) - 1) |-> IF j < k THEN s[j] ELSE s[j + 1]]

(* One line of the file, in the column order of KaggleHeader; the fields   *)
(* no key or claim depends on are the same in every line.                  *)
Line(cid, age, item, cat, size, alt, pref) ==
    << cid, age, "Male", item, cat, 53, "Kentucky", size, "Gray", "Winter",
       3, "Yes", alt, "Express", "Yes", "Yes", 14, pref, "Weekly" >>

Variants ==
    { Line(5, 30, "Shirt", "Clothing", "M", "Cash", "Card"),
      Line(5, 31, "Shirt", "Outerwear", "L", "Card", "Cash"),
      Line(7, 30, "Shirt", "Clothing", "L", "Cash", "Cash") }

LineSeqs ==
    UNION { [1..n -> Variants] : n \in 0..MaxRows }

(* The files a run can find at RAW_DATA_PATH: none, a well-formed file     *)
(* under the published header, a short one under the canonical header, or  *)
(* a file lacking a required column ("Customer ID", the 1st, or            *)
(* "Preferred Payment Method", the 18th).                                  *)
Files ==
    { [exists |-> FALSE, header |-> <<>>, lines |-> <<>>] }
    \cup { [exists |-> TRUE, header |-> KaggleHeader, lines |-> ls] :
             ls \in LineSeqs }
    \cup { [exists |-> TRUE, header |-> CanonicalHeader, lines |-> ls] :
             ls \in [1..1 -> Variants] }
    \cup { [exists |-> TRUE, header |-> Without(KaggleHeader, k),
            lines |-> [i \in DOMAIN ls |-> Without(ls[i], k)]] :
             k \in {1, 18}, ls \in [1..1 -> Variants] }

(* ----- pandas operations used by read_and_normalize_data ----- *)
None == [kind |-> "None"]

KeyError == [kind |-> "KeyError"]

(* Variant: row labels start at 1.                                         *)
read_csv_one_based(f) ==
    [kind |-> "DataFrame",
     columns |-> f.header,
     index |-> [i \in 1..Len(f.lines) |-> i],
     data |-> f.lines]

(* pd.read_csv(file_path): the header row gives the columns, the rows get  *)
(* the default RangeIndex 0..n-1.                                          *)
read_csv(f) ==
    [kind |-> "DataFrame",
     columns |-> f.header,
     index |-> [i \in 1..Len(f.lines) |-> i - 1],
     data |-> f.lines]

Uppers ==
    <<"A","B","C","D","E","F","G","H","I","J","K","L","M",
      "N","O","P","Q","R","S","T","U","V","W","X","Y","Z">>

Lowers ==
    <<"a","b","c","d","e","f","g","h","i","j","k","l","m",
      "n","o","p","q","r","s","t","u","v","w","x","y","z">>

Digits == {"0","1","2","3","4","5","6","7","8","9"}

(* str.lower() on one character.                                           *)
lower(c) ==
    IF \E i \in 1..26 : Uppers[i] = c
    THEN Lowers[CHOOSE i \in 1..26 : Uppers[i] = c]
    ELSE c

(* The character class [a-z0-9_].                                          *)
WordChar(c) ==
    c \in {Lowers[i] : i \in 1..26} \cup Digits \cup {"_"}

(* str.replace('[^a-z0-9_]+', '_', regex=True): every maximal run of       *)
(* characters outside the class becomes one underscore.                    *)
replace(s) ==
    LET F[i \in 0..Len(s)] ==
            IF i = 0 THEN <<>>
            ELSE IF WordChar(s[i]) THEN Append(F[i - 1], s[i])
            ELSE IF i > 1 /\ ~WordChar(s[i - 1]) THEN F[i - 1]
            ELSE Append(F[i - 1], "_")
    IN  F[Len(s)]

(* df.columns.str.lower().str.replace(...) on one label.                   *)
normalize_column(s) ==
    replace([i \in 1..Len(s) |-> lower(s[i])])

(* df.rename(columns=mapping): labels in the mapping are replaced.         *)
rename(df, mapping) ==
    [df EXCEPT !.columns =
        [j \in 1..Len(df.columns) |->
            IF df.columns[j] \in DOMAIN mapping
            THEN mapping[df.columns[j]]
            ELSE df.columns[j]]]

(* Positions of the columns labelled name, in column order.                *)
locs(df, name) ==
    LET Hit(j) == df.columns[j] = name
    IN  SelectSeq([j \in 1..Len(df.columns) |-> j], Hit)

(* df[name] = values: overwrite the column when the label exists, append   *)
(* a new column otherwise.                                                 *)
setitem(df, name, values) ==
    IF locs(df, name) # <<>>
    THEN [df EXCEPT !.data =
            [i \in 1..Len(df.data) |->
                [j \in 1..Len(df.columns) |->
                    IF df.columns[j] = name THEN values[i] ELSE df.data[i][j]]]]
    ELSE [df EXCEPT !.columns = Append(df.columns, name),
                    !.data = [i \in 1..Len(df.data) |->
                                 Append(df.data[i], values[i])]]

(* df[[labels]]: the listed columns in the listed order (every column      *)
(* carrying a listed label); KeyError when a label is absent.              *)
getitem(df, labels) ==
    LET P[k \in 0..Len(labels)] ==
            IF k = 0 THEN <<>> ELSE P[k - 1] \o locs(df, labels[k])
        pos == P[Len(labels)]
    IN  IF \E k \in 1..Len(labels) : locs(df, labels[k]) = <<>>
        THEN KeyError
        ELSE [df EXCEPT !.columns = [j \in 1..Len(pos) |-> df.columns[pos[j]]],
                        !.data = [i \in 1..Len(df.data) |->
                                     [j \in 1..Len(pos) |-> df.data[i][pos[j]]]]]

(* The values of row i of df under the labels of subset.                   *)
key(df, subset, i) ==
    [k \in 1..Len(subset) |-> df.data[i][locs(df, subset[k])[1]]]

(* Variant: keep='last'.                                                   *)
drop_duplicates_last(df, subset) ==
    LET Last(i) == \A k \in (i + 1)..Len(df.data) :
                       key(df, subset, k) # key(df, subset, i)
        kept == SelectSeq([i \in 1..Len(df.data) |-> i], Last)
    IN  [df EXCEPT !.index = [i \in 1..Len(kept) |-> df.index[kept[i]]],
                   !.data = [i \in 1..Len(kept) |-> df.data[kept[i]]]]

(* Variant: keep=False, every row that has a duplicate is dropped.         *)
drop_duplicates_none(df, subset) ==
    LET Alone(i) == \A k \in 1..Len(df.data) :
                       k # i => key(df, subset, k) # key(df, subset, i)
        kept == SelectSeq([i \in 1..Len(df.data) |-> i], Alone)
    IN  [df EXCEPT !.index = [i \in 1..Len(kept) |-> df.index[kept[i]]],
                   !.data = [i \in 1..Len(kept) |-> df.data[kept[i]]]]

(* df.drop_duplicates(subset=subset): keep='first', a row is dropped when  *)
(* an earlier row has the same values under subset; row labels are kept.   *)
drop_duplicates(df, subset) ==
    LET First(i) == \A k \in 1..(i - 1) : key(df, subset, k) # key(df, subset, i)
        kept == SelectSeq([i \in 1..Len(df.data) |-> i], First)
    IN  [df EXCEPT !.index = [i \in 1..Len(kept) |-> df.index[kept[i]]],
                   !.data = [i \in 1..Len(kept) |-> df.data[kept[i]]]]

(* ----- read_and_normalize_data ----- *)
customer_columns ==
    << c_customer_id, c_age, c_gender, c_location,
       c_subscription_status, c_frequency_of_purchases >>

item_columns ==
    << c_item_purchased, c_category, c_size, c_color, c_season >>

(* Variant: the other payment column is selected.                          *)
purchase_columns_alternate ==
    << c_purchase_transaction_id, c_customer_id, c_item_purchased, c_category,
       c_purchase_amount_usd, c_review_rating, c_shipping_type,
       c_discount_applied, c_promo_code_used, c_previous_purchases,
       c_payment_method >>

purchase_columns ==
    << c_purchase_transaction_id, c_customer_id, c_item_purchased, c_category,
       c_purchase_amount_usd, c_review_rating, c_shipping_type,
       c_discount_applied, c_promo_code_used, c_previous_purchases,
       c_preferred_payment_method >>

customer_subset == << c_customer_id >>

item_subset == << c_item_purchased, c_category >>

amount_alias == c_purchase_amount_usd_ :> c_purchase_amount_usd

item_rename == c_item_purchased :> c_item_name

purchase_rename ==
    (c_item_purchased :> c_item_name)
    @@ (c_preferred_payment_method :> c_payment_method)

(* Lines 70-80: the frame after the labels were canonicalised, the amount  *)
(* alias resolved and the transaction id added.                            *)
normalized_frame(f) ==
    LET df0 == read_csv(f)
        df1 == [df0 EXCEPT !.columns =
                   [j \in 1..Len(df0.columns) |-> normalize_column(df0.columns[j])]]
        df2 == rename(df1, amount_alias)
    IN  setitem(df2, c_purchase_transaction_id, df2.index)

(* The whole function: None when the file is missing (FileNotFoundError)   *)
(* or when any selection raises (except Exception), else the three frames. *)
read_and_normalize_data(f) ==
    IF ~f.exists THEN None
    ELSE LET df == normalized_frame(f)
             sel_customer == getitem(df, customer_columns)
             sel_item == getitem(df, item_columns)
             sel_purchase == getitem(df, purchase_columns)
         IN  IF KeyError \in {sel_customer, sel_item, sel_purchase}
             THEN None
             ELSE [kind |-> "dict",
                   Dim_Customer |-> drop_duplicates(sel_customer, customer_subset),
                   Dim_Item |-> rename(drop_duplicates(sel_item, item_subset),
                                       item_rename),
                   Fact_Purchase |-> rename(sel_purchase, purchase_rename)]

(* ----- schema ----- *)
(* TABLES, a dict: its items in insertion order.                           *)
TABLES ==
    << <<"customer", "Dim_Customer">>,
       <<"item", "Dim_Item">>,
       <<"purchase", "Fact_Purchase">> >>

(* TABLES[k]                                                               *)
TABLES_get(k) ==
    TABLES[CHOOSE j \in 1..Len(TABLES) : TABLES[j][1] = k][2]

(* The CREATE TABLE statements in the order returned: the table created    *)
(* and the tables its FOREIGN KEY clauses reference.                       *)
get_create_table_queries ==
    << [table |-> "Dim_Customer", references |-> {}],
       [table |-> "Dim_Item", references |-> {}],
       [table |-> "Fact_Purchase", references |-> {"Dim_Customer", "Dim_Item"}] >>

(* Variant: the tables are dropped in creation order.                      *)
drop_order_forward ==
    << TABLES_get("customer"), TABLES_get("item"), TABLES_get("purchase") >>

(* drop_order in setup_database.                                           *)
drop_order ==
    << TABLES_get("purchase"), TABLES_get("customer"), TABLES_get("item") >>

(* ----- state ----- *)
VARIABLES
    pc,               \* position of the run in __main__ / load_data
    file,             \* what is at RAW_DATA_PATH
    normalized_data,  \* result of read_and_normalize_data, None when it failed
    conn,             \* "unbound", "connected", "lost" (link down), "closed"
    cursor,           \* "unbound", "open", "closed"
    i,                \* position in the loop being executed
    error,            \* "none", "db" (caught by except), "exc" (propagating)
    log,              \* calls made to the database driver, in order
    tables,           \* tables that exist in the database
    pending,          \* tables with inserted rows not yet committed
    committed         \* tables with committed rows

vars ==
    << pc, file, normalized_data, conn, cursor, i, error, log,
       tables, pending, committed >>

AllTables == {"Dim_Customer", "Dim_Item", "Fact_Purchase"}

(* What a call to the driver can do: succeed, raise mysql.connector.Error  *)
(* with the link still up ("Error") or with the link gone ("Lost"), or     *)
(* raise an exception that is not a mysql.connector.Error ("Exception").   *)
(* Once the link is gone every call raises.                                *)
Outcomes ==
    IF conn = "connected" THEN {"ok", "Error", "Lost", "Exception"} ELSE {"Lost"}

Entry(op, table, res, n) ==
    [op |-> op, table |-> table, res |-> res, rows |-> n]

(* The link after a call with outcome o.                                   *)
link(o) ==
    IF o = "Lost" THEN "lost" ELSE conn

(* The server rolls the open transaction back when the link goes.          *)
pending_after(o) ==
    IF o = "Lost" THEN {} ELSE pending

(* Where an exception raised inside the try block of load_data leads:      *)
(* mysql.connector.Error is caught by the except clause, anything else     *)
(* propagates; the finally clause runs in both cases.                      *)
raised(o) ==
    IF o = "Exception" THEN "exc" ELSE "db"

(* Variant: every exception is swallowed and the run goes on.              *)
no_except_swallow(o) ==
    "none"

(* A statement of load_data outside any inner try.                         *)
no_except(o) ==
    IF o = "ok" THEN "none" ELSE raised(o)

(* Variant: a failing DROP is not caught inside setup_database.            *)
drop_except_fatal(o) ==
    no_except(o)

(* try/except Exception around each DROP: whatever is raised is printed    *)
(* and the loop goes on.                                                   *)
drop_except(o) ==
    "none"

Init ==
    /\ pc = "main"
    /\ file \in Files
    /\ normalized_data = None
    /\ conn = "unbound"
    /\ cursor = "unbound"
    /\ i = 1
    /\ error = "none"
    /\ log = <<>>
    /\ tables \in {{}, AllTables}
    /\ pending = {}
    /\ committed = tables

(* __main__, line 196                                                      *)
ReadAndNormalize ==
    /\ pc = "main"
    /\ normalized_data' = read_and_normalize_data(file)
    /\ pc' = "main_if"
    /\ UNCHANGED << file, conn, cursor, i, error, log, tables, pending, committed >>

(* __main__, line 197, normalized_data is None: nothing else runs.         *)
SkipLoad ==
    /\ pc = "main_if"
    /\ normalized_data = None
    /\ pc' = "done"
    /\ UNCHANGED << file, normalized_data, conn, cursor, i, error, log,
                    tables, pending, committed >>

(* Variant: load_data is called whatever was returned.                     *)
load_guard_always ==
    TRUE

(* __main__, line 197: the condition under which load_data is called.      *)
load_guard ==
    normalized_data # None

(* load_data, lines 158-160: mysql.connector.connect(...)                  *)
Connect(o) ==
    /\ pc = "main_if"
    /\ load_guard
    /\ o \in {"ok", "Error", "Exception"}
    /\ log' = Append(log, Entry("CONNECT", "", o, 0))
    /\ conn' = IF o = "ok" THEN "connected" ELSE conn
    /\ error' = no_except(o)
    /\ pc' = IF o = "ok" THEN "cursor" ELSE "finally"
    /\ UNCHANGED << file, normalized_data, cursor, i, tables, pending, committed >>

(* load_data, line 161: conn.cursor() raises OperationalError when the     *)
(* connection is not available, and succeeds otherwise.                    *)
Cursor(o) ==
    /\ pc = "cursor"
    /\ o \in {"ok", "Lost"}
    /\ cursor' = IF o = "ok" THEN "open" ELSE cursor
    /\ conn' = link(o)
    /\ error' = no_except(o)
    /\ pc' = IF o = "ok" THEN "drop" ELSE "finally"
    /\ i' = 1
    /\ UNCHANGED << file, normalized_data, log, tables, pending, committed >>

(* The server refuses to drop a table another existing table references.   *)
Referenced(t) ==
    \E q \in 1..Len(get_create_table_queries) :
        /\ get_create_table_queries[q].table \in tables
        /\ t \in get_create_table_queries[q].references

(* setup_database, lines 141-146: one DROP TABLE IF EXISTS                 *)
Drop(o) ==
    /\ pc = "drop"
    /\ o \in Outcomes
    /\ o = "ok" => ~Referenced(drop_order[i])
    /\ log' = Append(log, Entry("DROP", drop_order[i], o, 0))
    /\ conn' = link(o)
    /\ tables' = IF o = "ok" THEN tables \ {drop_order[i]} ELSE tables
    /\ committed' = IF o = "ok" THEN committed \ {drop_order[i]} ELSE committed
    /\ error' = drop_except(o)
    /\ IF error' # "none"
       THEN pc' = "finally" /\ i' = i
       ELSE IF i < Len(drop_order)
            THEN pc' = "drop" /\ i' = i + 1
            ELSE pc' = "create" /\ i' = 1
    /\ UNCHANGED << file, normalized_data, cursor, pending >>

(* setup_database, lines 149-150: one CREATE TABLE; it cannot succeed      *)
(* when the table still exists.                                            *)
Create(o) ==
    /\ pc = "create"
    /\ o \in Outcomes
    /\ o = "ok" => get_create_table_queries[i].table \notin tables
    /\ log' = Append(log, Entry("CREATE", get_create_table_queries[i].table, o, 0))
    /\ conn' = link(o)
    /\ tables' = IF o = "ok"
                 THEN tables \cup {get_create_table_queries[i].table}
                 ELSE tables
    /\ error' = no_except(o)
    /\ IF error' # "none"
       THEN pc' = "finally" /\ i' = i
       ELSE IF i < Len(get_create_table_queries)
            THEN pc' = "create" /\ i' = i + 1
            ELSE pc' = "insert" /\ i' = 1
    /\ UNCHANGED << file, normalized_data, cursor, pending, committed >>

(* load_data, line 177: records_to_insert                                  *)
records_to_insert(df) ==
    df.data

(* load_data, lines 168-181: cursor.executemany for the i-th item of       *)
(* TABLES                                                                  *)
Insert(o) ==
    /\ pc = "insert"
    /\ o \in Outcomes
    /\ LET table_name == TABLES[i][2]
           df == normalized_data[table_name]
       IN  /\ log' = Append(log, Entry("INSERT", table_name, o,
                                        Len(records_to_insert(df))))
           /\ pending' = IF o = "ok"
                         THEN pending \cup {table_name}
                         ELSE pending_after(o)
    /\ conn' = link(o)
    /\ error' = no_except(o)
    /\ pc' = IF error' # "none" THEN "finally" ELSE "commit"
    /\ UNCHANGED << file, normalized_data, cursor, i, tables, committed >>

(* The position after the commit of the i-th table: the next table, or     *)
(* the end of the try block.                                               *)
after_commit(k) ==
    IF k < Len(TABLES) THEN "insert" ELSE "finally"

(* load_data, line 182: conn.commit()                                      *)
Commit(o) ==
    /\ pc = "commit"
    /\ o \in Outcomes
    /\ log' = Append(log, Entry("COMMIT", TABLES[i][2], o, 0))
    /\ committed' = IF o = "ok" THEN committed \cup pending ELSE committed
    /\ pending' = IF o = "ok" THEN {} ELSE pending_after(o)
    /\ conn' = link(o)
    /\ error' = no_except(o)
    /\ IF error' # "none"
       THEN pc' = "finally" /\ i' = i
       ELSE /\ pc' = after_commit(i)
            /\ i' = IF i < Len(TABLES) THEN i + 1 ELSE i
    /\ UNCHANGED << file, normalized_data, cursor, tables >>

(* Variant: the cleanup never finds the connection connected.              *)
is_connected_never(c) ==
    FALSE

(* conn.is_connected() for a connection in state c.                        *)
is_connected(c) ==
    c = "connected"

(* load_data, lines 189-192: the finally clause.  The link may have gone   *)
(* down since the last call (alive = FALSE), which is_connected() then     *)
(* reports; closing the connection discards what was not committed.        *)
Finally(alive) ==
    /\ pc = "finally"
    /\ conn # "connected" => alive
    /\ LET c == IF alive THEN conn ELSE "lost"
       IN  IF c # "unbound" /\ is_connected(c)
           THEN /\ cursor' = "closed"
                /\ conn' = "closed"
           ELSE /\ cursor' = cursor
                /\ conn' = c
    /\ pending' = {}
    /\ pc' = "done"
    /\ UNCHANGED << file, normalized_data, i, error, log, tables, committed >>

Next ==
    \/ ReadAndNormalize
    \/ SkipLoad
    \/ \E o \in {"ok", "Error", "Exception"} : Connect(o)
    \/ \E o \in {"ok", "Lost"} : Cursor(o)
    \/ \E o \in Outcomes : Drop(o)
    \/ \E o \in Outcomes : Create(o)
    \/ \E o \in Outcomes : Insert(o)
    \/ \E o \in Outcomes : Commit(o)
    \/ \E alive \in BOOLEAN : Finally(alive)

Spec ==
    Init /\ [][Next]_vars

TypeOK ==
    /\ pc \in {"main", "main_if", "cursor", "drop", "create", "insert",
               "commit", "finally", "done"}
    /\ conn \in {"unbound", "connected", "lost", "closed"}
    /\ cursor \in {"unbound", "open", "closed"}
    /\ error \in {"none", "db", "exc"}
    /\ i \in 1..3
    /\ tables \subseteq AllTables
    /\ pending \subseteq AllTables
    /\ committed \subseteq AllTables

(* ======================================================================= *)
(* Properties                                                              *)
(* ======================================================================= *)

(* Positions in log of the calls op, and of the calls op on table t.       *)
Ops(op) ==
    {k \in DOMAIN log : log[k].op = op}

At(op, t) ==
    {k \in DOMAIN log : log[k].op = op /\ log[k].table = t}

OkAt(op, t) ==
    {k \in At(op, t) : log[k].res = "ok"}

(* Every call of B was made after all calls of A, and A was made.          *)
Precede(A, B) ==
    \A b \in B : A # {} /\ \A a \in A : a < b

(* The executemany into Dim_Item raised a mysql.connector.Error at k.      *)
ItemInsertFailed(k) ==
    /\ log[k].op = "INSERT"
    /\ log[k].table = "Dim_Item"
    /\ log[k].res \in {"Error", "Lost"}

(* What C1 says of the store and of the calls after the failure.           *)
AfterItemFailure(k) ==
    /\ "Dim_Customer" \in committed
    /\ OkAt("COMMIT", "Dim_Customer") # {}
    /\ At("INSERT", "Fact_Purchase") = {}
    /\ \A m \in Ops("COMMIT") : m < k
    /\ Len(log) = k

C2_CommitAfterAll_Original ==
    \A k \in Ops("COMMIT") :
        \A t \in AllTables : \E m \in OkAt("INSERT", t) : m < k

(* C2 amended: a commit is issued after each collection; every commit      *)
(* immediately follows the successful executemany of one collection, and   *)
(* by then that collection and the ones before it in load order have been  *)
(* inserted without error (all three only at the third commit).            *)
C2_CommitAfterEach ==
    \A k \in Ops("COMMIT") :
        /\ k > 1
        /\ log[k - 1].op = "INSERT"
        /\ log[k - 1].res = "ok"
        /\ log[k - 1].table = log[k].table
        /\ \E n \in 1..3 :
              /\ log[k].table = <<"Dim_Customer", "Dim_Item", "Fact_Purchase">>[n]
              /\ Cardinality({m \in Ops("COMMIT") : m <= k}) = n
              /\ \A j \in 1..n :
                    \E m \in OkAt("INSERT",
                                  <<"Dim_Customer", "Dim_Item", "Fact_Purchase">>[j]) :
                        m < k

C2_Witness ==
    /\ Cardinality(OkAt("COMMIT", "Dim_Customer")) = 1
    /\ At("INSERT", "Dim_Item") = {}
    /\ "Dim_Customer" \in committed

(* The file is missing or lacks a required column.                         *)
BadInput ==
    ~file.exists \/ file.header \notin {KaggleHeader, CanonicalHeader}

(* C3: when read_and_normalize_data fails it returns None, never some of   *)
(* the three collections, and the run makes no call to the database: no    *)
(* connection, no DROP, CREATE, INSERT or commit.                          *)
C3_FailureTouchesNothing ==
    pc # "main" =>
        /\ BadInput => normalized_data = None
        /\ normalized_data # None =>
               DOMAIN normalized_data =
                   {"kind", "Dim_Customer", "Dim_Item", "Fact_Purchase"}
        /\ normalized_data = None =>
               /\ log = <<>>
               /\ conn = "unbound"
               /\ cursor = "unbound"
               /\ pending = {}
               /\ committed = tables

C3_Witness ==
    /\ pc = "done"
    /\ file.exists
    /\ Len(file.header) = 18
    /\ normalized_data = None

C5_DependencyOrder ==
    /\ Precede(At("DROP", "Fact_Purchase"),
               At("DROP", "Dim_Customer") \cup At("DROP", "Dim_Item"))
    /\ \A t \in AllTables : Precede(At("DROP", t), Ops("CREATE"))
    /\ Precede(At("CREATE", "Dim_Customer"), At("CREATE", "Fact_Purchase"))
    /\ Precede(At("CREATE", "Dim_Item"), At("CREATE", "Fact_Purchase"))
    /\ \A t \in AllTables : Precede(OkAt("CREATE", t), Ops("INSERT"))
    /\ Precede(OkAt("INSERT", "Dim_Customer"), At("INSERT", "Dim_Item"))
    /\ Precede(OkAt("INSERT", "Dim_Item"), At("INSERT", "Fact_Purchase"))
    /\ Precede(OkAt("INSERT", "Dim_Customer"), At("INSERT", "Fact_Purchase"))
    /\ \A op \in {"DROP", "CREATE", "INSERT"}, t \in AllTables :
           Cardinality(At(op, t)) <= 1

C5_Witness ==
    /\ pc = "done"
    /\ OkAt("INSERT", "Fact_Purchase") # {}
    /\ committed = AllTables

(* The DROP at k raised.                                                   *)
FailedDrop(k) ==
    log[k].op = "DROP" /\ log[k].res # "ok"

Normalized ==
    pc # "main" /\ normalized_data # None

(* The fields of a line of the file that belong to each collection, by     *)
(* their position in the file.                                             *)
InCustomer(l) ==
    << l[1], l[2], l[3], l[7], l[12], l[19] >>

InItem(l) ==
    << l[4], l[5], l[8], l[9], l[10] >>

InPurchase(l, id) ==
    << id, l[1], l[4], l[5], l[6], l[11], l[14], l[15], l[16], l[17], l[18] >>

CustomerKey(l) ==
    l[1]

ItemKey(l) ==
    << l[4], l[5] >>

Preferred(l) ==
    l[18]

Alternate(l) ==
    l[13]

(* First line of the file with the same customer / the same item key as    *)
(* line n.                                                                 *)
FirstCustomer(n) ==
    CHOOSE m \in 1..n :
        /\ CustomerKey(file.lines[m]) = CustomerKey(file.lines[n])
        /\ \A j \in 1..(m - 1) :
               CustomerKey(file.lines[j]) # CustomerKey(file.lines[n])

FirstItem(n) ==
    CHOOSE m \in 1..n :
        /\ ItemKey(file.lines[m]) = ItemKey(file.lines[n])
        /\ \A j \in 1..(m - 1) : ItemKey(file.lines[j]) # ItemKey(file.lines[n])

Rows(df) ==
    {df.data[a] : a \in DOMAIN df.data}

(* C7: Dim_Customer has exactly one row per distinct customer_id and       *)
(* Dim_Item one per distinct (item_name, category) pair of the input, and  *)
(* the row kept for a key is the first input row with that key.            *)
C7_FirstOccurrencePerKey ==
    Normalized =>
        LET dc == normalized_data.Dim_Customer
            di == normalized_data.Dim_Item
            lines == file.lines
        IN  /\ dc.columns = << c_customer_id, c_age, c_gender, c_location,
                               c_subscription_status, c_frequency_of_purchases >>
            /\ di.columns = << c_item_name, c_category, c_size, c_color, c_season >>
            /\ Len(dc.data) =
                   Cardinality({CustomerKey(lines[n]) : n \in DOMAIN lines})
            /\ Len(di.data) =
                   Cardinality({ItemKey(lines[n]) : n \in DOMAIN lines})
            /\ \A a, b \in DOMAIN dc.data :
                   a # b => dc.data[a][1] # dc.data[b][1]
            /\ \A a, b \in DOMAIN di.data :
                   a # b => << di.data[a][1], di.data[a][2] >>
                                # << di.data[b][1], di.data[b][2] >>
            /\ Rows(dc) = {InCustomer(lines[FirstCustomer(n)]) : n \in DOMAIN lines}
            /\ Rows(di) = {InItem(lines[FirstItem(n)]) : n \in DOMAIN lines}

C7_Witness ==
    /\ Normalized
    /\ Len(file.lines) = 2
    /\ CustomerKey(file.lines[1]) = CustomerKey(file.lines[2])
    /\ file.lines[1][2] # file.lines[2][2]
    /\ Len(normalized_data.Dim_Customer.data) = 1

(* C8: Fact_Purchase has one row per input row, in input order, and the    *)
(* i-th row (0-based) has purchase_transaction_id i.                       *)
C8_OneFactRowPerLine ==
    Normalized =>
        LET fp == normalized_data.Fact_Purchase
        IN  /\ Len(fp.data) = Len(file.lines)
            /\ fp.columns[1] = c_purchase_transaction_id
            /\ \A n \in DOMAIN file.lines :
                   fp.data[n] = InPurchase(file.lines[n], n - 1)

C8_Witness ==
    /\ Normalized
    /\ Len(file.lines) = 3
    /\ file.lines[1] = file.lines[2]
    /\ Len(normalized_data.Fact_Purchase.data) = 3

(* Positions of the columns of df labelled name.                           *)
Labelled(df, name) ==
    {j \in DOMAIN df.columns : df.columns[j] = name}

(* C9: payment_method of each Fact_Purchase row is the preferred payment   *)
(* method of the input row, Fact_Purchase has exactly one payment_method   *)
(* column, and no collection carries the other payment field.              *)
C9_PreferredPaymentMethod ==
    Normalized =>
        LET fp == normalized_data.Fact_Purchase
        IN  /\ Cardinality(Labelled(fp, c_payment_method)) = 1
            /\ Labelled(fp, c_preferred_payment_method) = {}
            /\ Len(fp.columns) = 11
            /\ \A n \in DOMAIN file.lines :
                   \A j \in Labelled(fp, c_payment_method) :
                       fp.data[n][j] = Preferred(file.lines[n])
            /\ Labelled(normalized_data.Dim_Customer, c_payment_method) = {}
            /\ Labelled(normalized_data.Dim_Item, c_payment_method) = {}
            /\ Len(normalized_data.Dim_Customer.columns) = 6
            /\ Len(normalized_data.Dim_Item.columns) = 5

C9_Witness ==
    /\ Normalized
    /\ file.header = KaggleHeader
    /\ \E n \in DOMAIN file.lines :
           /\ Preferred(file.lines[n]) # Alternate(file.lines[n])
           /\ normalized_data.Fact_Purchase.data[n][11] = Preferred(file.lines[n])

(* The value of row a of df under the one column labelled name.            *)
Value(df, a, name) ==
    df.data[a][CHOOSE j \in DOMAIN df.columns : df.columns[j] = name]

(* C10: every Fact_Purchase row's customer_id is the customer_id of a      *)
(* Dim_Customer row and its (item_name, category) the key of a Dim_Item    *)
(* row.                                                                    *)
C10_NoOrphanKeys ==
    Normalized =>
        LET dc == normalized_data.Dim_Customer
            di == normalized_data.Dim_Item
            fp == normalized_data.Fact_Purchase
        IN  \A n \in DOMAIN fp.data :
                /\ \E a \in DOMAIN dc.data :
                       Value(dc, a, c_customer_id) = Value(fp, n, c_customer_id)
                /\ \E b \in DOMAIN di.data :
                       /\ Value(di, b, c_item_name) = Value(fp, n, c_item_name)
                       /\ Value(di, b, c_category) = Value(fp, n, c_category)

C10_Witness ==
    /\ Normalized
    /\ Len(file.lines) = 3
    /\ ItemKey(file.lines[1]) = ItemKey(file.lines[3])
    /\ CustomerKey(file.lines[1]) = CustomerKey(file.lines[2])
    /\ Len(normalized_data.Dim_Item.data) = 2
    /\ Len(normalized_data.Dim_Customer.data) = 2
====
